---- MODULE Spec2Model ----
(***************************************************************************)
(* Model of the HMAX_illusion stimulus generator (data_generation.py) and  *)
(* of its filename-indexed datasets (Dataset.py).                          *)
(*                                                                         *)
(* Strings are sequences of one-character strings, so that the f-string    *)
(* encoder and the regular-expression decoder are computed character by    *)
(* character.  random.randint(a, b) is a nondeterministic choice in a..b;  *)
(* the model follows the draws that lie within Spread of the lower end     *)
(* of the range, and the upper end.                                        *)
(*                                                                         *)
(* Spec       one record of a batch: sampled, saved under its name, and    *)
(*            decoded again by the dataset of its family                   *)
(* SpecCodec  generated names, edited by one character, handed to the      *)
(*            patterns of both dataset classes                             *)
(* SpecIndex  a dataset built on a directory listing, then read            *)
(* SpecBatch  a whole batch written to its directory, and the dataset      *)
(*            built on that directory                                      *)
(***************************************************************************)
EXTENDS Integers, Sequences, FiniteSets, TLC

VARIABLES
    kind,        \* generate_and_save: type, "train" | "test"
    case_ratio,  \* generate_and_save: case_ratio, a 6-tuple of weights
    image_size,  \* generate_and_save: image_size
    num_images,  \* generate_and_save: num_images
    idx,         \* the loop index i of the record last written
    config,      \* the parameter record last sampled (params / config)
    delta,       \* generate_xf_image: the local delta, <<>> when not drawn
    shafts,      \* the end points of the two shafts drawn in the last image
    fname,       \* the file name last written by generate_and_save
    decoded,     \* the record a dataset decoded from fname
    pc,          \* position of the generate / save / decode pipeline
    text,        \* a candidate file name handed to both decoders
    edits,       \* number of edits applied to text
    listing,     \* os.listdir(data_dir): the names in the directory
    family,      \* which dataset class is built: "xf" | "ml"
    transform,   \* whether the dataset was given a transform
    image_files, \* self.image_files
    params,      \* self.params / self.image_params
    dstate,      \* "new" | "built" | "RuntimeError"
    result,      \* what the last __getitem__ call gave back
    configs,     \* generate_and_save: the list configs of the batch
    dir_exists,  \* os.path.exists of training_data and of test_data
    dir_files,   \* the files in training_data and in test_data
    bpc          \* position of a whole batch: "idle" | "start" | "saved" | "indexed"

vars == <<kind, case_ratio, image_size, num_images, idx, config, delta, shafts,
          fname, decoded, pc, text, edits, listing, family, transform, image_files,
          params, dstate, result, configs, dir_exists,
          dir_files, bpc>>

genVars == <<kind, case_ratio, image_size, num_images, idx, config, delta,
             shafts, fname, decoded, pc>>
txtVars == <<text, edits>>
dsVars == <<listing, family, transform, image_files, params, dstate, result>>
batchVars == <<configs, dir_exists, dir_files, bpc>>

-----------------------------------------------------------------------------
(* Bounds of the model.                                                    *)

\* random.randint(a, b): the draws followed are a .. a+Spread, and b.
Spread == 0
\* number of single-character edits applied to a generated file name
MaxEdits == 1
\* number of names in a directory listing
MaxListing == 3
\* num_images of a batch that is followed file by file
MaxBatch == 3

\* image_size values of generate_and_save (int(0.8 * image_size) >= 45)
ImageSizes == {57, 130}
\* num_images values of generate_and_save
NumImages == {12}
\* case_ratio values of generate_and_save
CaseRatios == { <<1, 1, 1, 1, 1, 2>>, <<1, 0, 1, 1, 1, 1>>, <<1, 1, 1, 0, 0, 1>> }

-----------------------------------------------------------------------------
(* Characters and decimal text.                                            *)

DigitChars == <<"0", "1", "2", "3", "4", "5", "6", "7", "8", "9">>

IsDigit(c) == c \in {"0", "1", "2", "3", "4", "5", "6", "7", "8", "9"}

DigitValue(c) == (CHOOSE d \in 1..10 : DigitChars[d] = c) - 1

\* str(n) of a Python int, as the f-string writes it
RECURSIVE NatToStr(_)
NatToStr(n) ==
    IF n < 10 THEN <<DigitChars[n + 1]>>
    ELSE NatToStr(n \div 10) \o <<DigitChars[(n % 10) + 1]>>

IntToStr(n) == IF n < 0 THEN <<"-">> \o NatToStr(0 - n) ELSE NatToStr(n)

\* int(s) of a string of decimal digits
RECURSIVE StrToInt(_)
StrToInt(s) ==
    IF Len(s) = 0 THEN 0
    ELSE 10 * StrToInt(SubSeq(s, 1, Len(s) - 1)) + DigitValue(s[Len(s)])

\* the literal tokens of the file names, character by character
Chars(tok) ==
    CASE tok = "xf_" -> <<"x", "f", "_">>
      [] tok = "ml_" -> <<"m", "l", "_">>
      [] tok = "_" -> <<"_">>
      [] tok = ".png" -> <<".", "p", "n", "g">>
      [] tok = "0" -> <<"0">>
      [] tok = "1" -> <<"1">>
      [] tok = "EQUAL" -> <<"E", "Q", "U", "A", "L">>
      [] tok = "LONG" -> <<"L", "O", "N", "G">>
      [] tok = "SHORT" -> <<"S", "H", "O", "R", "T">>
      [] tok = "SAME_DIR" -> <<"S", "A", "M", "E", "_", "D", "I", "R">>
      [] tok = "DIFF_DIR" -> <<"D", "I", "F", "F", "_", "D", "I", "R">>
      [] tok = "SAME_CONFIG" ->
            <<"S", "A", "M", "E", "_", "C", "O", "N", "F", "I", "G">>
      [] tok = "DIFF_CONFIG" ->
            <<"D", "I", "F", "F", "_", "C", "O", "N", "F", "I", "G">>

\* "_".join(parts)
RECURSIVE JoinUnderscore(_)
JoinUnderscore(parts) ==
    IF Len(parts) = 0 THEN <<>>
    ELSE IF Len(parts) = 1 THEN parts[1]
    ELSE parts[1] \o <<"_">> \o JoinUnderscore(Tail(parts))

-----------------------------------------------------------------------------
(* The regular expressions of Dataset.py and re.match.                     *)

Lit(tok) == [t |-> "lit", s |-> Chars(tok), opts |-> <<>>]
Digits == [t |-> "digits", s |-> <<>>, opts |-> <<>>]
Alt(toks) == [t |-> "alt", s |-> <<>>, opts |-> [k \in DOMAIN toks |-> Chars(toks[k])]]

\* CrossFinDataset._pattern, between ^ and $
XfPattern ==
    << Lit("xf_"), Digits, Lit("_"),
       Alt(<<"0", "1">>), Lit("_"),
       Alt(<<"EQUAL", "LONG", "SHORT">>), Lit("_"),
       Alt(<<"SAME_CONFIG", "DIFF_CONFIG">>), Lit("_"),
       Digits, Lit("_"), Digits, Lit("_"),
       Digits, Lit("_"), Digits, Lit("_"),
       Digits, Lit("_"), Digits, Lit("_"),
       Digits, Lit("_"), Digits, Lit(".png") >>

\* MullerLyerDataset's pattern, between ^ and $
MlPattern ==
    << Lit("ml_"), Digits, Lit("_"),
       Alt(<<"0", "1">>), Lit("_"),
       Alt(<<"LONG", "SHORT">>), Lit("_"),
       Alt(<<"DIFF_DIR", "SAME_DIR">>), Lit("_"),
       Alt(<<"SAME_CONFIG", "DIFF_CONFIG">>), Lit("_"),
       Digits, Lit("_"),
       Digits, Lit("_"), Digits, Lit("_"),
       Digits, Lit("_"), Digits, Lit("_"),
       Digits, Lit("_"), Digits, Lit(".png") >>

\* s has the characters of lit at positions pos, pos+1, ...
HasAt(s, pos, lit) ==
    /\ pos + Len(lit) - 1 <= Len(s)
    /\ \A j \in 1..Len(lit) : s[pos + j - 1] = lit[j]

\* the number of digits of s from position pos on, up to the first non-digit
RECURSIVE RunLen(_, _)
RunLen(s, pos) ==
    IF pos > Len(s) THEN 0
    ELSE IF IsDigit(s[pos]) THEN 1 + RunLen(s, pos + 1)
    ELSE 0

\* $ without re.MULTILINE: the end of the string, or just before a newline
\* that is the last character of the string
AtDollar(s, pos) ==
    \/ pos = Len(s) + 1
    \/ pos = Len(s) /\ s[pos] = "\n"

\* The backtracking search of re.match for the elements k.. of pat, then $,
\* in s from position pos: <<>> when there is no match, else <<groups>>, the
\* captured groups of the first match found.  \d+ tries the longest run of
\* digits first and gives characters back one by one (TryRuns); an
\* alternation tries its branches from left to right (TryOpts).
RECURSIVE MatchFrom(_, _, _, _), TryRuns(_, _, _, _, _), TryOpts(_, _, _, _, _)
MatchFrom(pat, k, s, pos) ==
    IF k > Len(pat) THEN (IF AtDollar(s, pos) THEN << <<>> >> ELSE <<>>)
    ELSE LET e == pat[k] IN
         CASE e.t = "lit" ->
                IF HasAt(s, pos, e.s) THEN MatchFrom(pat, k + 1, s, pos + Len(e.s))
                ELSE <<>>
           [] e.t = "digits" -> TryRuns(pat, k, s, pos, RunLen(s, pos))
           [] e.t = "alt" -> TryOpts(pat, k, s, pos, 1)

TryRuns(pat, k, s, pos, n) ==
    IF n < 1 THEN <<>>
    ELSE LET r == MatchFrom(pat, k + 1, s, pos + n) IN
         IF r # <<>> THEN << <<SubSeq(s, pos, pos + n - 1)>> \o r[1] >>
         ELSE TryRuns(pat, k, s, pos, n - 1)

TryOpts(pat, k, s, pos, a) ==
    IF a > Len(pat[k].opts) THEN <<>>
    ELSE LET opt == pat[k].opts[a]
             r == IF HasAt(s, pos, opt)
                  THEN MatchFrom(pat, k + 1, s, pos + Len(opt))
                  ELSE <<>>
         IN  IF r # <<>> THEN << <<opt>> \o r[1] >>
             ELSE TryOpts(pat, k, s, pos, a + 1)

\* pattern.match(s): <<>> for None, else <<groups>>
ReMatch(pat, s) == MatchFrom(pat, 1, s, 1)

\* m.group(1), m.group(2), ... of a match object
Groups(found) == found[1]

Matches(pat, s) == ReMatch(pat, s) # <<>>

-----------------------------------------------------------------------------
(* The random source.                                                      *)

\* random.randint(a, b): a value of a..b
RandInt(a, b) == { x \in a..b : x <= a + Spread \/ x = b }

\* random.choices(population, weights=weights)[0] with a positive total
\* weight: an element whose weight is positive
Choices(population, weights) ==
    { population[k] : k \in { j \in DOMAIN population : weights[j] > 0 } }

\* case_ratio[a:b], Python's 0-based half-open slice
Slice(t, a, b) == SubSeq(t, a + 1, b)

Max(a, b) == IF a >= b THEN a ELSE b
Min(a, b) == IF a <= b THEN a ELSE b

-----------------------------------------------------------------------------
(* data_generation.py: the samplers.                                       *)

min_length == 45

\* int(image_size*0.8)
max_length(size) == (size * 8) \div 10

NoParams == [none |-> TRUE]

\* Rows with bottom_y drawn from the second fifth on (a wrong multiplier)
RowsOverlap(size) ==
    { <<ty, by>> :
        ty \in RandInt(size \div 5, (size \div 5) * 2),
        by \in RandInt((size \div 5) * 2, (size \div 5) * 4) }

\* the vertical positions of both samplers: <<top_y, bottom_y>>
Rows(size) ==
    { <<ty, by>> :
        ty \in RandInt(size \div 5, (size \div 5) * 2),
        by \in RandInt((size \div 5) * 3, (size \div 5) * 4) }

\* XfLengths with delta drawn from 0..62
XfLengthsZeroDelta(label, length_case, size) ==
    IF label = 1 THEN
        IF length_case = "LONG" THEN
            { <<length_case, top, Max(min_length, top - d), <<d>> >> :
                top \in RandInt(min_length, max_length(size)), d \in RandInt(0, 62) }
        ELSE IF length_case = "SHORT" THEN
            { <<length_case, Max(min_length, bottom - d), bottom, <<d>> >> :
                bottom \in RandInt(min_length, max_length(size)), d \in RandInt(0, 62) }
        ELSE {}
    ELSE
        { <<"EQUAL", top, top, <<>> >> : top \in RandInt(min_length, max_length(size)) }

\* the shaft lengths of generate_xf_image: <<length_case, top, bottom, delta>>
XfLengths(label, length_case, size) ==
    IF label = 1 THEN
        IF length_case = "LONG" THEN
            { <<length_case, top, Max(min_length, top - d), <<d>> >> :
                top \in RandInt(min_length, max_length(size)), d \in RandInt(2, 62) }
        ELSE IF length_case = "SHORT" THEN
            { <<length_case, Max(min_length, bottom - d), bottom, <<d>> >> :
                bottom \in RandInt(min_length, max_length(size)), d \in RandInt(2, 62) }
        ELSE {}
    ELSE
        { <<"EQUAL", top, top, <<>> >> : top \in RandInt(min_length, max_length(size)) }

\* Fins where SAME_CONFIG copies the fin length but draws the bottom angle
FinsAngleRedrawn(lo, fin_case, top_length, bottom_length) ==
    UNION { IF fin_case = "SAME_CONFIG"
            THEN { <<tfl, tfa, tfl, bfa>> : bfa \in RandInt(15, 75) }
            ELSE { <<tfl, tfa, bfl, bfa>> :
                     bfl \in RandInt(lo, Min(35, bottom_length \div 3)),
                     bfa \in RandInt(15, 75) } :
            tfl \in RandInt(lo, Min(35, top_length \div 3)),
            tfa \in RandInt(15, 75) }

\* the fin draws of generate_xf_image and generate_muller_lyer_image:
\* <<top_fin_length, top_fin_angle_deg, bottom_fin_length, bottom_fin_angle_deg>>
Fins(lo, fin_case, top_length, bottom_length) ==
    UNION { IF fin_case = "SAME_CONFIG"
            THEN { <<tfl, tfa, tfl, tfa>> }
            ELSE { <<tfl, tfa, bfl, bfa>> :
                     bfl \in RandInt(lo, Min(35, bottom_length \div 3)),
                     bfa \in RandInt(15, 75) } :
            tfl \in RandInt(lo, Min(35, top_length \div 3)),
            tfa \in RandInt(15, 75) }

\* no image drawn yet
NoShafts == [none |-> TRUE]

\* the shafts that generate_xf_image and generate_muller_lyer_image draw:
\* top_x = image_size // 2 - top_length // 2, the left end is (top_x, top_y)
\* and the right end (top_x + top_length, top_y); the same for the bottom
DrawShafts(top_length, bottom_length, top_y, bottom_y, size) ==
    LET top_x == size \div 2 - top_length \div 2
        bottom_x == size \div 2 - bottom_length \div 2
    IN  [ top_line_left |-> <<top_x, top_y>>,
          top_line_right |-> <<top_x + top_length, top_y>>,
          bottom_line_left |-> <<bottom_x, bottom_y>>,
          bottom_line_right |-> <<bottom_x + bottom_length, bottom_y>> ]

\* generate_xf_image(label, length_case, fin_case, image_size): the possible
\* <<params, delta>>
generate_xf_image(label, length_case, fin_case, size) ==
    { << [ label |-> label,
           length_case |-> LF[1][1],
           fin_case |-> fin_case,
           top_length |-> LF[1][2],
           bottom_length |-> LF[1][3],
           top_fin_length |-> LF[2][1],
           top_fin_angle_deg |-> LF[2][2],
           bottom_fin_length |-> LF[2][3],
           bottom_fin_angle_deg |-> LF[2][4],
           top_y |-> y[1],
           bottom_y |-> y[2] ], LF[1][4] >> :
        y \in Rows(size),
        LF \in UNION { { <<L0, F0>> : F0 \in Fins(10, fin_case, L0[2], L0[3]) } :
                       L0 \in XfLengths(label, length_case, size) } }

\* one iteration of the loop of generate_xf_dataset: the possible
\* <<params, delta>> appended to configs
generate_xf_dataset(ratio, size) ==
    UNION { generate_xf_image(c[1], c[2], c[3], size) :
            c \in UNION { { <<lbl, length_case, fin_case>> :
                            length_case \in
                                IF lbl = 1
                                THEN Choices(<<"LONG", "SHORT">>, Slice(ratio, 2, 4))
                                ELSE {"EQUAL"} } :
                          lbl \in RandInt(0, 1),
                          fin_case \in Choices(<<"SAME_CONFIG", "DIFF_CONFIG">>,
                                               Slice(ratio, 4, 6)) } }

\* generate_muller_lyer_image(top_dir_case, bottom_dir_case, fin_case,
\* image_size): the possible params
generate_muller_lyer_image(top_dir_case, bottom_dir_case, fin_case, size) ==
    { [ label |-> 0,
        top_dir_case |-> top_dir_case,
        bottom_dir_case |-> bottom_dir_case,
        fin_case |-> fin_case,
        shaft_length |-> LF[1],
        top_fin_length |-> LF[2][1],
        top_fin_angle_deg |-> LF[2][2],
        bottom_fin_length |-> LF[2][3],
        bottom_fin_angle_deg |-> LF[2][4],
        top_y |-> y[1],
        bottom_y |-> y[2] ] :
        y \in Rows(size),
        LF \in UNION { { <<shaft, F0>> : F0 \in Fins(15, fin_case, shaft, shaft) } :
                       shaft \in RandInt(min_length, max_length(size)) } }

\* one iteration of the loop of generate_muller_lyer_dataset
generate_muller_lyer_dataset(ratio, size) ==
    UNION { generate_muller_lyer_image(c[1], c[2], c[3], size) :
            c \in { <<top_dir_case, bottom_dir_case, fin_case>> :
                    top_dir_case \in Choices(<<"LONG", "SHORT">>, Slice(ratio, 2, 4)),
                    bottom_dir_case \in Choices(<<"SAME_DIR", "DIFF_DIR">>,
                                                Slice(ratio, 4, 6)),
                    fin_case \in Choices(<<"SAME_CONFIG", "DIFF_CONFIG">>,
                                         Slice(ratio, 4, 6)) } }

-----------------------------------------------------------------------------
(* data_generation.py: the file names of generate_and_save.                *)

\* XfFileName with the two rows written in the other order
XfFileNameRowsSwapped(i, c) ==
    Chars("xf_")
    \o JoinUnderscore(<< IntToStr(i), IntToStr(c.label), Chars(c.length_case),
                         Chars(c.fin_case), IntToStr(c.top_length),
                         IntToStr(c.bottom_length), IntToStr(c.top_fin_length),
                         IntToStr(c.top_fin_angle_deg), IntToStr(c.bottom_fin_length),
                         IntToStr(c.bottom_fin_angle_deg), IntToStr(c.bottom_y),
                         IntToStr(c.top_y) >>)
    \o Chars(".png")

\* XfFileName with a constant in the place of the loop index
XfFileNameNoIndex(i, c) ==
    Chars("xf_")
    \o JoinUnderscore(<< IntToStr(0), IntToStr(c.label), Chars(c.length_case),
                         Chars(c.fin_case), IntToStr(c.top_length),
                         IntToStr(c.bottom_length), IntToStr(c.top_fin_length),
                         IntToStr(c.top_fin_angle_deg), IntToStr(c.bottom_fin_length),
                         IntToStr(c.bottom_fin_angle_deg), IntToStr(c.top_y),
                         IntToStr(c.bottom_y) >>)
    \o Chars(".png")

\* the name under training_data/ of record c, the i-th of the batch
XfFileName(i, c) ==
    Chars("xf_")
    \o JoinUnderscore(<< IntToStr(i), IntToStr(c.label), Chars(c.length_case),
                         Chars(c.fin_case), IntToStr(c.top_length),
                         IntToStr(c.bottom_length), IntToStr(c.top_fin_length),
                         IntToStr(c.top_fin_angle_deg), IntToStr(c.bottom_fin_length),
                         IntToStr(c.bottom_fin_angle_deg), IntToStr(c.top_y),
                         IntToStr(c.bottom_y) >>)
    \o Chars(".png")

\* the name under test_data/ of record c, the i-th of the batch
MlFileName(i, c) ==
    Chars("ml_")
    \o JoinUnderscore(<< IntToStr(i), IntToStr(c.label), Chars(c.top_dir_case),
                         Chars(c.bottom_dir_case), Chars(c.fin_case),
                         IntToStr(c.shaft_length), IntToStr(c.top_fin_length),
                         IntToStr(c.top_fin_angle_deg), IntToStr(c.bottom_fin_length),
                         IntToStr(c.bottom_fin_angle_deg), IntToStr(c.top_y),
                         IntToStr(c.bottom_y) >>)
    \o Chars(".png")

-----------------------------------------------------------------------------
(* Dataset.py: the records decoded from a matching name.                   *)

\* the dict p that CrossFinDataset.__init__ builds from the groups m of a match
XfParams(m, name) ==
    [ index |-> StrToInt(m[1]),
      label |-> StrToInt(m[2]),
      length_case |-> m[3],
      fin_case |-> m[4],
      top_length |-> StrToInt(m[5]),
      bottom_length |-> StrToInt(m[6]),
      top_fin_length |-> StrToInt(m[7]),
      top_fin_angle |-> StrToInt(m[8]),
      bot_fin_length |-> StrToInt(m[9]),
      bot_fin_angle |-> StrToInt(m[10]),
      top_y |-> StrToInt(m[11]),
      bottom_y |-> StrToInt(m[12]),
      filename |-> name ]

\* the dict params that MullerLyerDataset.__init__ builds from the groups m
MlParams(m, name) ==
    [ index |-> StrToInt(m[1]),
      label |-> StrToInt(m[2]),
      top_dir |-> m[3],
      bottom_dir |-> m[4],
      fin_case |-> m[5],
      shaft_len |-> StrToInt(m[6]),
      top_fin_len |-> StrToInt(m[7]),
      top_fin_ang |-> StrToInt(m[8]),
      bot_fin_len |-> StrToInt(m[9]),
      bot_fin_ang |-> StrToInt(m[10]),
      top_y |-> StrToInt(m[11]),
      bottom_y |-> StrToInt(m[12]),
      filename |-> name ]

-----------------------------------------------------------------------------
(* The generate / save / index pipeline, one record at a time.             *)

NoResult == [none |-> TRUE]

DatasetIdle ==
    /\ listing = <<>>
    /\ family = "xf"
    /\ transform = FALSE
    /\ image_files = <<>>
    /\ params = <<>>
    /\ dstate = "new"
    /\ result = NoResult

TextIdle ==
    /\ text = <<>>
    /\ edits = 0

\* the two output directories of generate_and_save
DirNames == {"training_data", "test_data"}

BatchIdle ==
    /\ configs = <<>>
    /\ dir_exists = [d \in DirNames |-> FALSE]
    /\ dir_files = [d \in DirNames |-> {}]
    /\ bpc = "idle"

Init ==
    /\ kind \in {"train", "test"}
    /\ case_ratio \in CaseRatios
    /\ image_size \in ImageSizes
    /\ num_images \in NumImages
    /\ idx = 0
    /\ config = NoParams
    /\ delta = <<>>
    /\ shafts = NoShafts
    /\ fname = <<>>
    /\ decoded = NoParams
    /\ pc = "ready"
    /\ TextIdle
    /\ DatasetIdle
    /\ BatchIdle

\* generate_and_save("train", ...): record i of the batch is sampled by
\* generate_xf_dataset and saved under its name
SaveTrain ==
    /\ kind = "train"
    /\ pc = "ready"
    /\ \E out \in generate_xf_dataset(case_ratio, image_size),
          i \in RandInt(0, num_images - 1) :
            /\ config' = out[1]
            /\ delta' = out[2]
            /\ shafts' = DrawShafts(out[1].top_length, out[1].bottom_length,
                                    out[1].top_y, out[1].bottom_y, image_size)
            /\ idx' = i
            /\ fname' = XfFileName(i, out[1])
    /\ decoded' = NoParams
    /\ pc' = "saved"
    /\ UNCHANGED batchVars
    /\ UNCHANGED <<kind, case_ratio, image_size, num_images, txtVars, dsVars>>

\* generate_and_save("test", ...): record i of the batch is sampled by
\* generate_muller_lyer_dataset and saved under its name
SaveTest ==
    /\ kind = "test"
    /\ pc = "ready"
    /\ \E out \in generate_muller_lyer_dataset(case_ratio, image_size),
          i \in RandInt(0, num_images - 1) :
            /\ config' = out
            /\ shafts' = DrawShafts(out.shaft_length, out.shaft_length,
                                    out.top_y, out.bottom_y, image_size)
            /\ idx' = i
            /\ fname' = MlFileName(i, out)
    /\ delta' = <<>>
    /\ decoded' = NoParams
    /\ pc' = "saved"
    /\ UNCHANGED batchVars
    /\ UNCHANGED <<kind, case_ratio, image_size, num_images, txtVars, dsVars>>

\* CrossFinDataset.__init__ reaches the saved file in training_data
IndexTrain ==
    /\ kind = "train"
    /\ pc = "saved"
    /\ \E m \in {ReMatch(XfPattern, fname)} :
       IF m # <<>>
       THEN decoded' = XfParams(Groups(m), fname) /\ pc' = "indexed"
       ELSE decoded' = NoParams /\ pc' = "skipped"
    /\ UNCHANGED batchVars
    /\ UNCHANGED <<kind, case_ratio, image_size, num_images, idx, config, delta,
                   shafts, fname, txtVars, dsVars>>

\* MullerLyerDataset.__init__ reaches the saved file in test_data
IndexTest ==
    /\ kind = "test"
    /\ pc = "saved"
    /\ \E m \in {ReMatch(MlPattern, fname)} :
       IF m # <<>>
       THEN decoded' = MlParams(Groups(m), fname) /\ pc' = "indexed"
       ELSE decoded' = NoParams /\ pc' = "skipped"
    /\ UNCHANGED batchVars
    /\ UNCHANGED <<kind, case_ratio, image_size, num_images, idx, config, delta,
                   shafts, fname, txtVars, dsVars>>

Next == SaveTrain \/ SaveTest \/ IndexTrain \/ IndexTest

Spec == Init /\ [][Next]_vars

-----------------------------------------------------------------------------
(* Properties of the generate / save / index pipeline (Spec).              *)

Sampled == pc # "ready"

\* the shaft lengths of the sampled record, whichever the family
TopLength == IF kind = "train" THEN config.top_length ELSE config.shaft_length
BottomLength == IF kind = "train" THEN config.bottom_length ELSE config.shaft_length

\* the record CrossFinDataset must decode from the name of (idx, config)
XfExpected ==
    [ index |-> idx,
      label |-> config.label,
      length_case |-> Chars(config.length_case),
      fin_case |-> Chars(config.fin_case),
      top_length |-> config.top_length,
      bottom_length |-> config.bottom_length,
      top_fin_length |-> config.top_fin_length,
      top_fin_angle |-> config.top_fin_angle_deg,
      bot_fin_length |-> config.bottom_fin_length,
      bot_fin_angle |-> config.bottom_fin_angle_deg,
      top_y |-> config.top_y,
      bottom_y |-> config.bottom_y,
      filename |-> fname ]

\* the record MullerLyerDataset must decode from the name of (idx, config)
MlExpected ==
    [ index |-> idx,
      label |-> config.label,
      top_dir |-> Chars(config.top_dir_case),
      bottom_dir |-> Chars(config.bottom_dir_case),
      fin_case |-> Chars(config.fin_case),
      shaft_len |-> config.shaft_length,
      top_fin_len |-> config.top_fin_length,
      top_fin_ang |-> config.top_fin_angle_deg,
      bot_fin_len |-> config.bottom_fin_length,
      bot_fin_ang |-> config.bottom_fin_angle_deg,
      top_y |-> config.top_y,
      bottom_y |-> config.bottom_y,
      filename |-> fname ]

\* C1: round trip, both families: the name that generate_and_save writes for
\* (i, r) is always matched by the family's dataset pattern (it is never
\* skipped), and the record decoded from it carries the index i and the
\* value of every field of r: label, case tokens, lengths, angles and rows.
C1_RoundTrip ==
    /\ pc # "skipped"
    /\ pc = "indexed" =>
         IF kind = "train" THEN decoded = XfExpected ELSE decoded = MlExpected

\* C1 witness: a Cross-Fin record with a two-digit index and three-digit
\* lengths has been written and decoded
C1_Witness ==
    /\ pc = "indexed"
    /\ kind = "train"
    /\ idx >= 10
    /\ config.label = 1
    /\ config.top_length >= 100
    /\ decoded.top_length = config.top_length

\* C3 (as stated): in every Cross-Fin record, label = 0, length_case = EQUAL
\* and top_length = bottom_length are equivalent
C3_LabelShape ==
    (Sampled /\ kind = "train") =>
        /\ (config.label = 0) <=> (config.length_case = "EQUAL")
        /\ (config.length_case = "EQUAL") <=> (config.top_length = config.bottom_length)

\* C4 (as stated): in every record of either family each shaft's fin length
\* lies in [lo, min(35, that shaft's length // 3)], lo = 10 for Cross-Fin and
\* 15 for Muller-Lyer
C4_FinBand ==
    Sampled =>
        LET lo == IF kind = "train" THEN 10 ELSE 15 IN
        /\ lo <= config.top_fin_length
        /\ config.top_fin_length <= Min(35, TopLength \div 3)
        /\ lo <= config.bottom_fin_length
        /\ config.bottom_fin_length <= Min(35, BottomLength \div 3)

\* a case drawn with the weights (w0, w1) for (a, b) is never the one whose
\* weight is 0 while the other weight is positive
NeverZeroWeight(case, a, b, w0, w1) ==
    /\ (w0 = 0 /\ w1 > 0) => case # a
    /\ (w1 = 0 /\ w0 > 0) => case # b

\* C5 (as stated): every axis is drawn with the pair of weights at its
\* documented position of case_ratio, so a case of weight 0 (the other weight
\* of its pair positive) appears in no record: Cross-Fin label with
\* case_ratio[0:2], length_case with [2:4], fin_case with [4:6]; Muller-Lyer
\* top_dir_case with [0:2], bottom_dir_case with [2:4], fin_case with [4:6]
C5_ZeroWeightAbsent ==
    Sampled =>
        IF kind = "train"
        THEN /\ NeverZeroWeight(config.label, 0, 1, case_ratio[1], case_ratio[2])
             /\ NeverZeroWeight(config.length_case, "LONG", "SHORT",
                                case_ratio[3], case_ratio[4])
             /\ NeverZeroWeight(config.fin_case, "SAME_CONFIG", "DIFF_CONFIG",
                                case_ratio[5], case_ratio[6])
        ELSE /\ NeverZeroWeight(config.top_dir_case, "LONG", "SHORT",
                                case_ratio[1], case_ratio[2])
             /\ NeverZeroWeight(config.bottom_dir_case, "SAME_DIR", "DIFF_DIR",
                                case_ratio[3], case_ratio[4])
             /\ NeverZeroWeight(config.fin_case, "SAME_CONFIG", "DIFF_CONFIG",
                                case_ratio[5], case_ratio[6])

\* the ordering of a primary and a secondary shaft under the clamp
ClampedOrdering(primary, secondary, d) ==
    /\ d \in 2..62
    /\ secondary = Max(45, primary - d)
    /\ primary - d >= 45 => (primary > secondary /\ primary - secondary \in 2..62)
    /\ ~(primary > secondary) => (secondary = 45 /\ primary - d < 45)

\* C8: in a Cross-Fin record of label 1 the secondary shaft is
\* max(45, primary - delta) with delta in [2,62]; the primary shaft (top for
\* LONG, bottom for SHORT) is strictly longer, by a difference in [2,62],
\* whenever primary - delta >= 45, and the ordering is not strict only when
\* the secondary shaft was clamped to 45
C8_LengthOrdering ==
    (Sampled /\ kind = "train" /\ config.label = 1) =>
        /\ Len(delta) = 1
        /\ config.length_case \in {"LONG", "SHORT"}
        /\ config.length_case = "LONG" =>
             ClampedOrdering(config.top_length, config.bottom_length, delta[1])
        /\ config.length_case = "SHORT" =>
             ClampedOrdering(config.bottom_length, config.top_length, delta[1])

\* C8 witness: a LONG record whose floor was not hit
C8_Witness ==
    /\ Sampled
    /\ kind = "train"
    /\ config.label = 1
    /\ config.length_case = "LONG"
    /\ config.top_length - delta[1] >= 45
    /\ config.top_length > config.bottom_length

\* C9: in every record of both families fin_case = SAME_CONFIG implies equal
\* fin lengths and equal fin angles of the two shafts
C9_SameConfig ==
    (Sampled /\ config.fin_case = "SAME_CONFIG") =>
        /\ config.top_fin_length = config.bottom_fin_length
        /\ config.top_fin_angle_deg = config.bottom_fin_angle_deg

\* C9 witness: a SAME_CONFIG record of label 1 whose shafts differ
C9_Witness ==
    /\ Sampled
    /\ kind = "train"
    /\ config.fin_case = "SAME_CONFIG"
    /\ config.label = 1
    /\ config.top_length # config.bottom_length
    /\ config.top_fin_angle_deg = 75

\* C10: for every image_size with 45 <= int(0.8 * image_size), in every
\* record of either family top_y < bottom_y, top_y lies in
\* [image_size//5, 2*(image_size//5)], bottom_y in
\* [3*(image_size//5), 4*(image_size//5)], and both rows are rows of the image
C10_Rows ==
    (Sampled /\ 45 <= max_length(image_size)) =>
        LET fifth == image_size \div 5 IN
        /\ config.top_y < config.bottom_y
        /\ config.top_y \in fifth..(2 * fifth)
        /\ config.bottom_y \in (3 * fifth)..(4 * fifth)
        /\ 0 <= config.top_y
        /\ config.bottom_y <= image_size - 1

\* C10 witness: at the smallest image size the lowest top row and the highest
\* bottom row were drawn
C10_Witness ==
    /\ Sampled
    /\ image_size = 57
    /\ config.top_y = 22
    /\ config.bottom_y = 33

\* C11: common centre axis: in every rendered image of either family the
\* two shafts have the same horizontal midpoint: the sum of the x of the left
\* and right ends (2 * top_x + top_length) is the same for the top shaft and
\* for the bottom shaft
C11_CommonCentre ==
    Sampled =>
        shafts.top_line_left[1] + shafts.top_line_right[1] =
            shafts.bottom_line_left[1] + shafts.bottom_line_right[1]

-----------------------------------------------------------------------------
(* Candidate names handed to both decoders (SpecCodec).                    *)

GenIdle ==
    /\ kind = "train"
    /\ case_ratio = <<1, 1, 1, 1, 1, 2>>
    /\ image_size = 130
    /\ num_images = 12
    /\ idx = 0
    /\ config = NoParams
    /\ delta = <<>>
    /\ shafts = NoShafts
    /\ fname = <<>>
    /\ decoded = NoParams
    /\ pc = "ready"

\* records the samplers produce at image_size = 130
XfRecordA ==
    [ label |-> 1, length_case |-> "LONG", fin_case |-> "DIFF_CONFIG",
      top_length |-> 104, bottom_length |-> 102, top_fin_length |-> 10,
      top_fin_angle_deg |-> 15, bottom_fin_length |-> 34,
      bottom_fin_angle_deg |-> 75, top_y |-> 26, bottom_y |-> 104 ]

XfRecordB ==
    [ label |-> 0, length_case |-> "EQUAL", fin_case |-> "SAME_CONFIG",
      top_length |-> 45, bottom_length |-> 45, top_fin_length |-> 15,
      top_fin_angle_deg |-> 75, bottom_fin_length |-> 15,
      bottom_fin_angle_deg |-> 75, top_y |-> 52, bottom_y |-> 78 ]

MlRecordA ==
    [ label |-> 0, top_dir_case |-> "SHORT", bottom_dir_case |-> "DIFF_DIR",
      fin_case |-> "SAME_CONFIG", shaft_length |-> 104, top_fin_length |-> 34,
      top_fin_angle_deg |-> 15, bottom_fin_length |-> 34,
      bottom_fin_angle_deg |-> 15, top_y |-> 26, bottom_y |-> 78 ]

\* names that generate_and_save writes
BaseNames == { XfFileName(0, XfRecordA), MlFileName(11, MlRecordA) }

\* the characters an edit may write
Alphabet == { "0", "7", "_", ".", "x", "m", "l", "G", "g", "-", " ", "\n" }

InitCodec ==
    /\ GenIdle
    /\ DatasetIdle
    /\ BatchIdle
    /\ text \in BaseNames
    /\ edits = 0

\* a character is written between two characters, before the first or after
\* the last
InsertChar ==
    /\ edits < MaxEdits
    /\ result = NoResult
    /\ \E pos \in 0..Len(text), ch \in Alphabet :
         text' = SubSeq(text, 1, pos) \o <<ch>> \o SubSeq(text, pos + 1, Len(text))
    /\ edits' = edits + 1
    /\ UNCHANGED batchVars
    /\ UNCHANGED <<genVars, dsVars>>

\* a character is dropped
DeleteChar ==
    /\ edits < MaxEdits
    /\ result = NoResult
    /\ \E pos \in 1..Len(text) :
         text' = SubSeq(text, 1, pos - 1) \o SubSeq(text, pos + 1, Len(text))
    /\ edits' = edits + 1
    /\ UNCHANGED batchVars
    /\ UNCHANGED <<genVars, dsVars>>

\* a character is overwritten
ReplaceChar ==
    /\ edits < MaxEdits
    /\ result = NoResult
    /\ \E pos \in 1..Len(text), ch \in Alphabet :
         text' = [text EXCEPT ![pos] = ch]
    /\ edits' = edits + 1
    /\ UNCHANGED batchVars
    /\ UNCHANGED <<genVars, dsVars>>

\* the family tag is exchanged for the other family's
SwapTag ==
    /\ edits < MaxEdits
    /\ result = NoResult
    /\ text' = (IF HasAt(text, 1, Chars("xf_")) THEN Chars("ml_") ELSE Chars("xf_"))
               \o SubSeq(text, 4, Len(text))
    /\ edits' = edits + 1
    /\ UNCHANGED batchVars
    /\ UNCHANGED <<genVars, dsVars>>

\* self._pattern.match(text) of CrossFinDataset and pattern.match(text) of
\* MullerLyerDataset
Probe ==
    /\ result = NoResult
    /\ result' = [xf |-> ReMatch(XfPattern, text), ml |-> ReMatch(MlPattern, text)]
    /\ UNCHANGED batchVars
    /\ UNCHANGED <<genVars, text, edits, listing, family, transform, image_files,
                   params, dstate>>

NextCodec == InsertChar \/ DeleteChar \/ ReplaceChar \/ SwapTag \/ Probe

SpecCodec == InitCodec /\ [][NextCodec]_vars

\* the pieces of s between the separators sep
RECURSIVE Split(_, _)
Split(s, sep) ==
    IF \A j \in 1..Len(s) : s[j] # sep THEN <<s>>
    ELSE LET j == CHOOSE j \in 1..Len(s) :
                      s[j] = sep /\ \A h \in 1..(j - 1) : s[h] # sep
         IN  <<SubSeq(s, 1, j - 1)>> \o Split(SubSeq(s, j + 1, Len(s)), sep)

\* an unsigned base-10 integer
IsNumber(tok) == Len(tok) >= 1 /\ \A j \in 1..Len(tok) : IsDigit(tok[j])

\* s without its last four characters, when these are ".png"
HasPng(s) == Len(s) >= 4 /\ SubSeq(s, Len(s) - 3, Len(s)) = Chars(".png")
Stem(s) == SubSeq(s, 1, Len(s) - 4)

\* the Cross-Fin grammar: xf, index, label, length_case, fin_case and eight
\* integers, joined by "_", then ".png"
InXfGrammar(s) ==
    /\ HasPng(s)
    /\ LET f == Split(Stem(s), "_") IN
       /\ Len(f) = 14
       /\ f[1] = <<"x", "f">>
       /\ IsNumber(f[2])
       /\ f[3] \in {Chars("0"), Chars("1")}
       /\ f[4] \in {Chars("EQUAL"), Chars("LONG"), Chars("SHORT")}
       /\ f[5] \o <<"_">> \o f[6] \in {Chars("SAME_CONFIG"), Chars("DIFF_CONFIG")}
       /\ \A k \in 7..14 : IsNumber(f[k])

\* the Muller-Lyer grammar: ml, index, label, top_dir_case, bottom_dir_case,
\* fin_case and seven integers, joined by "_", then ".png"
InMlGrammar(s) ==
    /\ HasPng(s)
    /\ LET f == Split(Stem(s), "_") IN
       /\ Len(f) = 15
       /\ f[1] = <<"m", "l">>
       /\ IsNumber(f[2])
       /\ f[3] \in {Chars("0"), Chars("1")}
       /\ f[4] \in {Chars("LONG"), Chars("SHORT")}
       /\ f[5] \o <<"_">> \o f[6] \in {Chars("DIFF_DIR"), Chars("SAME_DIR")}
       /\ f[7] \o <<"_">> \o f[8] \in {Chars("SAME_CONFIG"), Chars("DIFF_CONFIG")}
       /\ \A k \in 9..15 : IsNumber(f[k])

Probed == result # NoResult

\* C2 (as stated): the Cross-Fin decoder matches a string only if it is
\* exactly a name of the Cross-Fin grammar, the Muller-Lyer decoder only if it
\* is exactly a name of the Muller-Lyer grammar, with no extra character
\* before or after, and no string is matched by both
C2_StrictDecoding ==
    Probed =>
        /\ result.xf # <<>> => InXfGrammar(text)
        /\ result.ml # <<>> => InMlGrammar(text)
        /\ ~(result.xf # <<>> /\ result.ml # <<>>)

-----------------------------------------------------------------------------
(* Dataset.py: building a dataset on a directory and reading entries       *)
(* (SpecIndex).                                                            *)

IMG_SIZE == 256

\* names a directory may hold: generated files of both families, a stray
\* file, a partially written name, and a name that ends in a newline
NamePool ==
    { XfFileName(0, XfRecordA),
      XfFileName(11, XfRecordB),
      MlFileName(11, MlRecordA),
      <<"n", "o", "t", "e", "s", ".", "t", "x", "t">>,
      SubSeq(XfFileName(0, XfRecordA), 1, Len(XfFileName(0, XfRecordA)) - 2),
      XfFileName(0, XfRecordA) \o <<"\n">> }

\* os.listdir: the names of a directory, each once, in any order
Listings ==
    UNION { { l \in [1..n -> NamePool] : \A a, b \in 1..n : l[a] = l[b] => a = b } :
            n \in 0..MaxListing }

\* CrossFinDataset.__init__ with a break in place of the continue
RECURSIVE XfScanBreak(_, _, _, _)
XfScanBreak(names, k, files, ps) ==
    IF k > Len(names) THEN <<files, ps>>
    ELSE LET m == ReMatch(XfPattern, names[k]) IN
         IF m = <<>> THEN <<files, ps>>
         ELSE XfScanBreak(names, k + 1, Append(files, names[k]),
                          Append(ps, XfParams(Groups(m), names[k])))

\* the loop of CrossFinDataset.__init__ from entry k of the listing on:
\* <<image_files, params>>
RECURSIVE XfScan(_, _, _, _)
XfScan(names, k, files, ps) ==
    IF k > Len(names) THEN <<files, ps>>
    ELSE LET m == ReMatch(XfPattern, names[k]) IN
         IF m = <<>> THEN XfScan(names, k + 1, files, ps)
         ELSE XfScan(names, k + 1, Append(files, names[k]),
                     Append(ps, XfParams(Groups(m), names[k])))

\* the loop of MullerLyerDataset.__init__ from entry k of the listing on:
\* <<image_files, image_params>>
RECURSIVE MlScan(_, _, _, _)
MlScan(names, k, files, ps) ==
    IF k > Len(names) THEN <<files, ps>>
    ELSE LET m == ReMatch(MlPattern, names[k]) IN
         IF m # <<>>
         THEN MlScan(names, k + 1, Append(files, names[k]),
                     Append(ps, MlParams(Groups(m), names[k])))
         ELSE MlScan(names, k + 1, files, ps)

InitIndex ==
    /\ GenIdle
    /\ TextIdle
    /\ BatchIdle
    /\ listing \in Listings
    /\ family \in {"xf", "ml"}
    /\ transform \in BOOLEAN
    /\ image_files = <<>>
    /\ params = <<>>
    /\ dstate = "new"
    /\ result = NoResult

\* CrossFinDataset(data_dir, transform)
CrossFinInit ==
    /\ family = "xf"
    /\ dstate = "new"
    /\ \E scan \in {XfScan(listing, 1, <<>>, <<>>)} :
         /\ image_files' = scan[1]
         /\ params' = scan[2]
         /\ dstate' = IF scan[1] = <<>> THEN "RuntimeError" ELSE "built"
    /\ UNCHANGED batchVars
    /\ UNCHANGED <<genVars, txtVars, listing, family, transform, result>>

\* MullerLyerDataset(data_dir, transform)
MullerLyerInit ==
    /\ family = "ml"
    /\ dstate = "new"
    /\ \E scan \in {MlScan(listing, 1, <<>>, <<>>)} :
         /\ image_files' = scan[1]
         /\ params' = scan[2]
         /\ dstate' = IF scan[1] = <<>> THEN "RuntimeError" ELSE "built"
    /\ UNCHANGED batchVars
    /\ UNCHANGED <<genVars, txtVars, listing, family, transform, result>>

\* Image.open(path).convert('L'), then the transform if one was given
Loaded(name) ==
    [source |-> "file", name |-> name, mode |-> "L", transformed |-> transform]

\* Image.new("L", (IMG_SIZE, IMG_SIZE), 128), then the transform if one was
\* given
Dummy ==
    [source |-> "new", mode |-> "L", size |-> <<IMG_SIZE, IMG_SIZE>>, fill |-> 128,
     transformed |-> transform]

\* CrossFinDataset.__getitem__(i) when Image.open succeeds (opens) or raises
XfGetResult(i, opens) ==
    IF opens
    THEN [call |-> "xf", idx |-> i, opened |-> TRUE, raised |-> FALSE,
          image |-> Loaded(image_files[i + 1]), value |-> params[i + 1].label]
    ELSE [call |-> "xf", idx |-> i, opened |-> FALSE, raised |-> TRUE]

\* MullerLyerDataset.__getitem__ without the try / except
MlGetResultNoRecovery(i, opens) ==
    IF opens
    THEN [call |-> "ml", idx |-> i, opened |-> TRUE, raised |-> FALSE,
          image |-> Loaded(image_files[i + 1]), value |-> params[i + 1]]
    ELSE [call |-> "ml", idx |-> i, opened |-> FALSE, raised |-> TRUE]

\* MullerLyerDataset.__getitem__(i) when Image.open succeeds (opens) or raises
MlGetResult(i, opens) ==
    IF opens
    THEN [call |-> "ml", idx |-> i, opened |-> TRUE, raised |-> FALSE,
          image |-> Loaded(image_files[i + 1]), value |-> params[i + 1]]
    ELSE [call |-> "ml", idx |-> i, opened |-> FALSE, raised |-> FALSE,
          image |-> Dummy, value |-> params[i + 1]]

\* dataset[i] on a CrossFinDataset
CrossFinGetItem ==
    /\ family = "xf"
    /\ dstate = "built"
    /\ \E i \in 0..(Len(image_files) - 1), opens \in BOOLEAN :
         result' = XfGetResult(i, opens)
    /\ UNCHANGED batchVars
    /\ UNCHANGED <<genVars, txtVars, listing, family, transform, image_files,
                   params, dstate>>

\* dataset[i] on a MullerLyerDataset
MullerLyerGetItem ==
    /\ family = "ml"
    /\ dstate = "built"
    /\ \E i \in 0..(Len(image_files) - 1), opens \in BOOLEAN :
         result' = MlGetResult(i, opens)
    /\ UNCHANGED batchVars
    /\ UNCHANGED <<genVars, txtVars, listing, family, transform, image_files,
                   params, dstate>>

NextIndex == CrossFinInit \/ MullerLyerInit \/ CrossFinGetItem \/ MullerLyerGetItem

SpecIndex == InitIndex /\ [][NextIndex]_vars

-----------------------------------------------------------------------------
(* Properties of SpecIndex.                                                *)

FamilyPattern == IF family = "xf" THEN XfPattern ELSE MlPattern

FamilyParams(name) ==
    IF family = "xf" THEN XfParams(Groups(ReMatch(XfPattern, name)), name)
    ELSE MlParams(Groups(ReMatch(MlPattern, name)), name)

\* how many times name occurs in the sequence q
Count(q, name) == Cardinality({ k \in DOMAIN q : q[k] = name })

GetPolicy ==
    (dstate = "built" /\ result # NoResult) =>
        /\ result.idx \in 0..(Len(image_files) - 1)
        /\ (result.call = "ml" /\ ~result.opened) =>
             /\ ~result.raised
             /\ result.image.source = "new"
             /\ result.image.fill = 128
             /\ result.image.size = <<IMG_SIZE, IMG_SIZE>>
             /\ result.value = params[result.idx + 1]
        /\ (result.call = "xf" /\ ~result.opened) => result.raised
        /\ (result.call = "xf" /\ result.opened) =>
             /\ ~result.raised
             /\ result.image.source = "file"
             /\ result.image.name = image_files[result.idx + 1]
             /\ result.value = params[result.idx + 1].label
        /\ (result.call = "ml" /\ result.opened) =>
             /\ ~result.raised
             /\ result.image.source = "file"
             /\ result.image.name = image_files[result.idx + 1]
             /\ result.value = params[result.idx + 1]

\* C7: when opening the image of entry i fails, MullerLyerDataset.__getitem__
\* does not raise and returns a mid-gray (128) IMG_SIZE x IMG_SIZE placeholder
\* with the full record of entry i, while CrossFinDataset.__getitem__ raises;
\* when the open succeeds Cross-Fin returns the image and the label of entry
\* i, Muller-Lyer the image and the record of entry i; a __getitem__ call
\* never changes the file list or the decoded records
C7_GetItem ==
    /\ []GetPolicy
    /\ [][dstate = "built" => UNCHANGED <<image_files, params, dstate>>]_vars

\* C7 witness: a Muller-Lyer read whose open failed gave the placeholder
C7_Witness ==
    /\ dstate = "built"
    /\ result # NoResult
    /\ result.call = "ml"
    /\ ~result.opened
    /\ result.image.fill = 128

-----------------------------------------------------------------------------
(* A whole batch of generate_and_save and the dataset on its directory     *)
(* (SpecBatch).                                                            *)

MlRecordB ==
    [ label |-> 0, top_dir_case |-> "LONG", bottom_dir_case |-> "SAME_DIR",
      fin_case |-> "DIFF_CONFIG", shaft_length |-> 45, top_fin_length |-> 15,
      top_fin_angle_deg |-> 75, bottom_fin_length |-> 15,
      bottom_fin_angle_deg |-> 15, top_y |-> 52, bottom_y |-> 104 ]

\* the records a batch is followed on
XfSamples == { XfRecordA, XfRecordB }
MlSamples == { MlRecordA, MlRecordB }

\* generate_xf_dataset(num_images, ...): the lists configs it can return,
\* every entry appended by one iteration of its loop
XfBatches(n, ratio, size) ==
    [1..n -> { out[1] : out \in generate_xf_dataset(ratio, size) } \cap XfSamples]

\* generate_muller_lyer_dataset(num_images, ...): the lists configs
MlBatches(n, ratio, size) ==
    [1..n -> generate_muller_lyer_dataset(ratio, size) \cap MlSamples]

\* img.save(path): the directory after the write; a file of that name is
\* replaced.  An image is represented by the record it was rendered from.
Save(dir, name, c) ==
    { f \in dir : f.name # name } \cup { [name |-> name, image |-> c] }

\* the loop "for i, (img, config) in enumerate(zip(imgs, configs))" of the
\* "train" branch, from index i on
RECURSIVE XfSaveAll(_, _, _)
XfSaveAll(cs, i, dir) ==
    IF i >= Len(cs) THEN dir
    ELSE XfSaveAll(cs, i + 1, Save(dir, XfFileName(i, cs[i + 1]), cs[i + 1]))

\* the same loop of the "test" branch
RECURSIVE MlSaveAll(_, _, _)
MlSaveAll(cs, i, dir) ==
    IF i >= Len(cs) THEN dir
    ELSE MlSaveAll(cs, i + 1, Save(dir, MlFileName(i, cs[i + 1]), cs[i + 1]))

\* os.listdir(data_dir): the names of the directory, in any order
ListDir(dir) ==
    LET names == { f.name : f \in dir }
    IN  { l \in [1..Cardinality(names) -> names] :
            \A a, b \in DOMAIN l : l[a] = l[b] => a = b }

\* the call generate_and_save(kind, num_images, ...) is about to be made;
\* its output directory is absent or empty
InitBatch ==
    /\ kind \in {"train", "test"}
    /\ case_ratio = <<1, 1, 1, 1, 1, 2>>
    /\ image_size = 130
    /\ num_images \in 0..MaxBatch
    /\ idx = 0
    /\ config = NoParams
    /\ delta = <<>>
    /\ shafts = NoShafts
    /\ fname = <<>>
    /\ decoded = NoParams
    /\ pc = "ready"
    /\ TextIdle
    /\ DatasetIdle
    /\ configs = <<>>
    /\ dir_exists \in [DirNames -> BOOLEAN]
    /\ dir_files = [d \in DirNames |-> {}]
    /\ bpc = "start"

\* generate_and_save("train", num_images, ...)
GenerateAndSaveTrain ==
    /\ kind = "train"
    /\ bpc = "start"
    /\ \E cs \in XfBatches(num_images, case_ratio, image_size) :
         /\ configs' = cs
         /\ dir_files' = [dir_files EXCEPT
                !["training_data"] = XfSaveAll(cs, 0, dir_files["training_data"])]
    /\ dir_exists' = [dir_exists EXCEPT !["training_data"] = TRUE]
    /\ bpc' = "saved"
    /\ UNCHANGED <<genVars, txtVars, dsVars>>

\* generate_and_save("test", num_images, ...)
GenerateAndSaveTest ==
    /\ kind = "test"
    /\ bpc = "start"
    /\ \E cs \in MlBatches(num_images, case_ratio, image_size) :
         /\ configs' = cs
         /\ dir_files' = [dir_files EXCEPT
                !["test_data"] = MlSaveAll(cs, 0, dir_files["test_data"])]
    /\ dir_exists' = [dir_exists EXCEPT !["test_data"] = TRUE]
    /\ bpc' = "saved"
    /\ UNCHANGED <<genVars, txtVars, dsVars>>

\* CrossFinDataset("training_data") after the batch
CrossFinOnBatch ==
    /\ kind = "train"
    /\ bpc = "saved"
    /\ \E names \in ListDir(dir_files["training_data"]) :
         /\ listing' = names
         /\ \E scan \in {XfScan(names, 1, <<>>, <<>>)} :
              /\ image_files' = scan[1]
              /\ params' = scan[2]
              /\ dstate' = IF scan[1] = <<>> THEN "RuntimeError" ELSE "built"
    /\ family' = "xf"
    /\ bpc' = "indexed"
    /\ UNCHANGED <<genVars, txtVars, transform, result, configs, dir_exists,
                   dir_files>>

\* MullerLyerDataset("test_data") after the batch
MullerLyerOnBatch ==
    /\ kind = "test"
    /\ bpc = "saved"
    /\ \E names \in ListDir(dir_files["test_data"]) :
         /\ listing' = names
         /\ \E scan \in {MlScan(names, 1, <<>>, <<>>)} :
              /\ image_files' = scan[1]
              /\ params' = scan[2]
              /\ dstate' = IF scan[1] = <<>> THEN "RuntimeError" ELSE "built"
    /\ family' = "ml"
    /\ bpc' = "indexed"
    /\ UNCHANGED <<genVars, txtVars, transform, result, configs, dir_exists,
                   dir_files>>

NextBatch ==
    GenerateAndSaveTrain \/ GenerateAndSaveTest \/ CrossFinOnBatch
        \/ MullerLyerOnBatch

SpecBatch == InitBatch /\ [][NextBatch]_vars

-----------------------------------------------------------------------------
(* Properties of SpecBatch.                                                *)

\* the directory the call writes to, and the other one
BatchDir == IF kind = "train" THEN "training_data" ELSE "test_data"
OtherDir == IF kind = "train" THEN "test_data" ELSE "training_data"

\* the family tag a name starts with
BatchTag == IF kind = "train" THEN <<"x", "f">> ELSE <<"m", "l">>

\* the index field of a written name: its second "_"-separated piece
IndexField(name) == Split(name, "_")[2]

\* the entry a dataset must hold for record c written as the i-th of a batch
BatchEntry(i, c) ==
    IF kind = "train"
    THEN [ index |-> i,
           label |-> c.label,
           length_case |-> Chars(c.length_case),
           fin_case |-> Chars(c.fin_case),
           top_length |-> c.top_length,
           bottom_length |-> c.bottom_length,
           top_fin_length |-> c.top_fin_length,
           top_fin_angle |-> c.top_fin_angle_deg,
           bot_fin_length |-> c.bottom_fin_length,
           bot_fin_angle |-> c.bottom_fin_angle_deg,
           top_y |-> c.top_y,
           bottom_y |-> c.bottom_y,
           filename |-> XfFileName(i, c) ]
    ELSE [ index |-> i,
           label |-> c.label,
           top_dir |-> Chars(c.top_dir_case),
           bottom_dir |-> Chars(c.bottom_dir_case),
           fin_case |-> Chars(c.fin_case),
           shaft_len |-> c.shaft_length,
           top_fin_len |-> c.top_fin_length,
           top_fin_ang |-> c.top_fin_angle_deg,
           bot_fin_len |-> c.bottom_fin_length,
           bot_fin_ang |-> c.bottom_fin_angle_deg,
           top_y |-> c.top_y,
           bottom_y |-> c.bottom_y,
           filename |-> MlFileName(i, c) ]

\* C12: one batch = N distinct files: after generate_and_save(kind, N, ...)
\* on an absent or empty output directory, the directory of that kind
\* exists ("train": training_data with xf names, "test": test_data with ml
\* names, the other directory untouched) and holds exactly N files with
\* pairwise distinct names; each index 0..N-1 is the index field of exactly
\* one file, and that file is the image of the i-th sampled record; and for
\* N >= 1 the dataset of that family built on the directory has length N
\* and holds exactly one entry per generated record
C12_OneBatch ==
    bpc \in {"saved", "indexed"} =>
        LET out == dir_files[BatchDir]
            N == num_images
        IN  /\ dir_exists[BatchDir]
            /\ dir_files[OtherDir] = {}
            /\ Len(configs) = N
            /\ Cardinality(out) = N
            /\ Cardinality({ f.name : f \in out }) = N
            /\ \A f \in out : Split(f.name, "_")[1] = BatchTag
            /\ \A i \in 0..(N - 1) :
                 \E f \in out :
                    /\ IndexField(f.name) = IntToStr(i)
                    /\ f.image = configs[i + 1]
                    /\ \A g \in out : IndexField(g.name) = IntToStr(i) => g = f
            /\ (bpc = "indexed" /\ N >= 1) =>
                 /\ dstate = "built"
                 /\ Len(image_files) = N
                 /\ Len(params) = N
                 /\ \A i \in 0..(N - 1) :
                      Cardinality({ k \in DOMAIN params :
                                      params[k] = BatchEntry(i, configs[i + 1]) }) = 1

\* C12 witness: a Cross-Fin batch of three records, the first two equal,
\* was written into a directory that did not exist, and the dataset was
\* built on a listing that does not start with file 0
C12_Witness ==
    /\ bpc = "indexed"
    /\ kind = "train"
    /\ num_images = 3
    /\ configs[1] = configs[2]
    /\ configs[3] # configs[1]
    /\ Cardinality(dir_files["training_data"]) = 3
    /\ dstate = "built"
    /\ params[1].index = 2
    /\ Len(image_files) = 3

====
